---- MODULE Spec2Model ----
(***************************************************************************)
(* Card Vision statement parser (src/main.py): the CreditCardParser        *)
(* extractors and the batch loop of main().  Texts are character strings;  *)
(* every regular expression of the source is written out as a sequence of  *)
(* pattern items and run by a backtracking matcher with the semantics of   *)
(* Python's re.search / re.findall (leftmost match, alternatives and       *)
(* repetition counts tried in priority order).                             *)
(***************************************************************************)
EXTENDS Integers, Sequences, FiniteSets, TLC

VARIABLES uploaded_files, show_raw_text, idx, pc, text, result, results, calls,
          views

vars == <<uploaded_files, show_raw_text, idx, pc, text, result, results, calls,
          views>>

----------------------------------------------------------------------------
(* Bounds of the model *)

\* most text fragments on one page of a single-document batch
MaxFrags == 2
\* most documents in an uploaded batch
MaxFiles == 2

----------------------------------------------------------------------------
(* Characters *)

Digits == {"0", "1", "2", "3", "4", "5", "6", "7", "8", "9"}
LowerAZ == {"a", "b", "c", "d", "e", "f", "g", "h", "i", "j", "k", "l", "m",
            "n", "o", "p", "q", "r", "s", "t", "u", "v", "w", "x", "y", "z"}
UpperAZ == {"A", "B", "C", "D", "E", "F", "G", "H", "I", "J", "K", "L", "M",
            "N", "O", "P", "Q", "R", "S", "T", "U", "V", "W", "X", "Y", "Z"}
\* \s of the re module, restricted to the whitespace the texts can hold
Space == {" ", "\n", "\t"}

ToLower == [c \in UpperAZ |->
    CASE c = "A" -> "a" [] c = "B" -> "b" [] c = "C" -> "c" [] c = "D" -> "d"
      [] c = "E" -> "e" [] c = "F" -> "f" [] c = "G" -> "g" [] c = "H" -> "h"
      [] c = "I" -> "i" [] c = "J" -> "j" [] c = "K" -> "k" [] c = "L" -> "l"
      [] c = "M" -> "m" [] c = "N" -> "n" [] c = "O" -> "o" [] c = "P" -> "p"
      [] c = "Q" -> "q" [] c = "R" -> "r" [] c = "S" -> "s" [] c = "T" -> "t"
      [] c = "U" -> "u" [] c = "V" -> "v" [] c = "W" -> "w" [] c = "X" -> "x"
      [] c = "Y" -> "y" [] c = "Z" -> "z"]

LowerChar(c) == IF c \in UpperAZ THEN ToLower[c] ELSE c

\* the least element of a non-empty set of integers
Least(S) == CHOOSE k \in S : \A j \in S : k <= j

\* the characters a..b of s, each lower-cased (by halves)
RECURSIVE LowerRange(_, _, _)
LowerRange(s, a, b) ==
    IF a > b THEN ""
    ELSE IF a = b THEN LowerChar(SubSeq(s, a, a))
    ELSE LowerRange(s, a, (a + b) \div 2) \o LowerRange(s, (a + b) \div 2 + 1, b)

\* str.lower()
Lower(s) == LowerRange(s, 1, Len(s))

\* the positions from i on at which w occurs in s
Occurrences(w, s, i) ==
    {j \in i..(Len(s) - Len(w) + 1) : SubSeq(s, j, j + Len(w) - 1) = w}

\* the first position from i on at which w occurs in s, or 0
FindFrom(w, s, i) ==
    IF Occurrences(w, s, i) = {} THEN 0 ELSE Least(Occurrences(w, s, i))

\* the Python operator  w in s  on strings
Contains(w, s) == FindFrom(w, s, 1) > 0

RECURSIVE StripLeft(_), StripRight(_)
StripLeft(s) ==
    IF Len(s) > 0 /\ SubSeq(s, 1, 1) \in Space
    THEN StripLeft(SubSeq(s, 2, Len(s))) ELSE s
StripRight(s) ==
    IF Len(s) > 0 /\ SubSeq(s, Len(s), Len(s)) \in Space
    THEN StripRight(SubSeq(s, 1, Len(s) - 1)) ELSE s

\* str.strip()
Strip(s) == StripRight(StripLeft(s))

----------------------------------------------------------------------------
(* Pattern items: the regular-expression syntax the source uses *)

\* a literal string
Lit(w) == <<[t |-> "lit", s |-> w]>>
\* a character class repeated lo..hi times (hi < 0: unbounded), greedy or lazy
Cls(S, lo, hi, greedy) ==
    <<[t |-> "cls", set |-> S, neg |-> FALSE, lo |-> lo, hi |-> hi, greedy |-> greedy]>>
\* a negated class, repeated likewise
NotCls(S, lo, hi, greedy) ==
    <<[t |-> "cls", set |-> S, neg |-> TRUE, lo |-> lo, hi |-> hi, greedy |-> greedy]>>
\* (?:a|b|...) : alternatives in priority order
Alt(alts) == <<[t |-> "alt", alts |-> alts]>>
\* (?:a)? : greedy optional group
Opt(a) == Alt(<<a, <<>>>>)
\* (a) : capture group n
Grp(n, a) == <<[t |-> "open", n |-> n]>> \o a \o <<[t |-> "close", n |-> n]>>

One(S) == Cls(S, 1, 1, TRUE)
Rep(S, n) == Cls(S, n, n, TRUE)
Star(S) == Cls(S, 0, -1, TRUE)
Plus(S) == Cls(S, 1, -1, TRUE)
Maybe(S) == Cls(S, 0, 1, TRUE)
LazyPlus(S) == Cls(S, 1, -1, FALSE)
\* .*?  (the dot matches anything but a newline)
LazyDotStar == NotCls({"\n"}, 0, -1, FALSE)

RECURSIVE FoldItems(_), FoldAlts(_)
FoldAlts(alts) ==
    IF Len(alts) = 0 THEN <<>>
    ELSE <<FoldItems(Head(alts))>> \o FoldAlts(Tail(alts))
FoldItems(items) ==
    IF Len(items) = 0 THEN <<>>
    ELSE LET it == Head(items)
             folded ==
                CASE it.t = "lit" -> [it EXCEPT !.s = Lower(it.s)]
                  [] it.t = "cls" -> [it EXCEPT !.set = {LowerChar(c) : c \in it.set}]
                  [] it.t = "alt" -> [it EXCEPT !.alts = FoldAlts(it.alts)]
                  [] OTHER -> it
         IN  <<folded>> \o FoldItems(Tail(items))

\* a compiled pattern: its items and whether re.IGNORECASE is given
Re(items) == [items |-> items, ic |-> FALSE]
ReI(items) == [items |-> FoldItems(items), ic |-> TRUE]

----------------------------------------------------------------------------
(* The matcher *)

NoMatch == [ok |-> FALSE]
NoCaps == [g |-> <<<<0, 0>>, <<0, 0>>, <<0, 0>>, <<0, 0>>>>, lastindex |-> 0]

InCls(it, c) == IF it.neg THEN c \notin it.set ELSE c \in it.set

\* how many characters from position i on belong to the class, at most hi
RunLen(it, t, i) ==
    LET last == IF it.hi >= 0 /\ i + it.hi - 1 < Len(t) THEN i + it.hi - 1 ELSE Len(t)
        stops == {j \in i..last : ~InCls(it, SubSeq(t, j, j))}
    IN  IF stops = {} THEN last - i + 1 ELSE Least(stops) - i

\* A thread of the matcher: where the attempt started, the position it has
\* reached and the groups it has captured.  The threads are kept in the
\* order in which sre's backtracking would try them, so the first thread
\* that gets through all the items is the match sre returns.
Thread(i) == [start |-> i, pos |-> i, caps |-> NoCaps]

RECURSIVE Step(_, _, _), Expand(_, _, _, _, _), Run(_, _, _, _, _),
          RunAlts(_, _, _, _)

\* the threads one item leaves of one thread, in priority order: a greedy
\* repetition tries the longest count first, a lazy one the shortest, an
\* alternation its alternatives from left to right
Step(it, t, th) ==
    CASE it.t = "lit" ->
            LET n == Len(it.s)
            IN  IF th.pos + n - 1 <= Len(t) /\ SubSeq(t, th.pos, th.pos + n - 1) = it.s
                THEN <<[th EXCEPT !.pos = @ + n]>>
                ELSE <<>>
      [] it.t = "cls" ->
            LET run == RunLen(it, t, th.pos)
            IN  IF run < it.lo THEN <<>>
                ELSE IF it.greedy
                THEN [j \in 1..(run - it.lo + 1) |-> [th EXCEPT !.pos = @ + run - j + 1]]
                ELSE [j \in 1..(run - it.lo + 1) |-> [th EXCEPT !.pos = @ + it.lo + j - 1]]
      [] it.t = "alt" -> RunAlts(it.alts, t, th, 1)
      [] it.t = "open" -> <<[th EXCEPT !.caps.g[it.n] = <<th.pos, th.pos>>]>>
      [] it.t = "close" ->
            <<[th EXCEPT !.caps.g[it.n] = <<@[1], th.pos>>, !.caps.lastindex = it.n]>>

\* the threads the alternatives k.. leave of one thread
RunAlts(alts, t, th, k) ==
    IF k > Len(alts) THEN <<>>
    ELSE Run(alts[k], t, <<th>>, 1, Len(alts[k])) \o RunAlts(alts, t, th, k + 1)

\* the threads one item leaves of the threads a..b (by halves)
Expand(it, t, threads, a, b) ==
    IF a > b THEN <<>>
    ELSE IF a = b THEN Step(it, t, threads[a])
    ELSE Expand(it, t, threads, a, (a + b) \div 2)
            \o Expand(it, t, threads, (a + b) \div 2 + 1, b)

\* the threads the items a..b leave of the given threads (by halves)
Run(items, t, threads, a, b) ==
    IF a > b \/ Len(threads) = 0 THEN threads
    ELSE IF a = b THEN Expand(items[a], t, threads, 1, Len(threads))
    ELSE LET left == Run(items, t, threads, a, (a + b) \div 2)
         IN  Run(items, t, left, (a + b) \div 2 + 1, b)

\* the elements of a set of integers in increasing order
InOrder(S) ==
    [j \in 1..Cardinality(S) |-> CHOOSE x \in S : Cardinality({y \in S : y < x}) = j - 1]

\* the positions from i on at which a match can start, in scan order: a
\* pattern that begins with a literal can only match where the literal occurs
Starts(items, t, i) ==
    IF Len(items) > 0 /\ items[1].t = "lit"
    THEN InOrder(Occurrences(items[1].s, t, i))
    ELSE [j \in 1..(Len(t) + 2 - i) |-> i + j - 1]

\* the scan of re.search: the match of the first thread, over the start
\* positions from left to right, that gets through the pattern
SearchFrom(items, t, i) ==
    LET starts == Starts(items, t, i)
        done == Run(items, t, [j \in 1..Len(starts) |-> Thread(starts[j])],
                    1, Len(items))
    IN  IF Len(done) = 0 THEN NoMatch
        ELSE [ok |-> TRUE, start |-> done[1].start, end |-> done[1].pos,
              caps |-> done[1].caps]

\* a subject string together with its case-folded copy, which the searches
\* under re.IGNORECASE run on
Subject(s) == [s |-> s, folded |-> Lower(s)]

\* re.search(pattern, s[, re.IGNORECASE]) from position i: the leftmost match
SearchAt(p, h, i) == SearchFrom(p.items, IF p.ic THEN h.folded ELSE h.s, i)
Search(p, h) == SearchAt(p, h, 1)

\* match.group(n)
Group(m, s, n) == SubSeq(s, m.caps.g[n][1], m.caps.g[n][2] - 1)

\* re.findall: the non-overlapping matches, left to right
RECURSIVE FindAllFrom(_, _, _)
FindAllFrom(p, h, i) ==
    LET m == SearchAt(p, h, i)
    IN  IF ~m.ok THEN <<>>
        ELSE <<m>> \o FindAllFrom(p, h, IF m.end > m.start THEN m.end ELSE m.end + 1)
FindAll(p, s) == FindAllFrom(p, Subject(s), 1)

----------------------------------------------------------------------------
(* Sub-patterns shared by the rule lists *)

Alpha == LowerAZ \cup UpperAZ
\* \s+ and \s*
SP1 == Plus(Space)
SP0 == Star(Space)
\* \d{2}\s+[A-Za-z]{3}\s+\d{4}
DateMonSp == Rep(Digits, 2) \o SP1 \o Rep(Alpha, 3) \o SP1 \o Rep(Digits, 4)
\* \d{2}-[A-Za-z]{3}-\d{4}
DateMonHy == Rep(Digits, 2) \o Lit("-") \o Rep(Alpha, 3) \o Lit("-") \o Rep(Digits, 4)
\* \d{2}[/-]\d{2}[/-]\d{4}
DateNum == Rep(Digits, 2) \o One({"/", "-"}) \o Rep(Digits, 2) \o One({"/", "-"})
           \o Rep(Digits, 4)
\* [\d,]+\.?\d*
Amount == Plus(Digits \cup {","}) \o Maybe({"."}) \o Star(Digits)
\* (?:rs\.?|₹|inr)?
CurAny == Opt(Alt(<<Lit("rs") \o Maybe({"."}), Lit("₹"), Lit("inr")>>))
\* (?:Rs\.?|₹)?
CurRs == Opt(Alt(<<Lit("Rs") \o Maybe({"."}), Lit("₹")>>))
\* [:\s]*
ColSp == Star({":"} \cup Space)

----------------------------------------------------------------------------
(* The rule lists, in the order of the source *)

card_last_4_patterns == <<
    ReI(Lit("Card") \o SP1 \o Plus(Alpha \cup Space) \o Lit("(XXXX-XXXX-XXXX-")
        \o Grp(1, Rep(Digits, 4)) \o Lit(")")),
    ReI(Lit("XXXX-XXXX-XXXX-") \o Grp(1, Rep(Digits, 4))),
    ReI(Lit("card") \o SP0 \o Lit("ending") \o SP0 \o Lit("with") \o SP0
        \o Star(Digits) \o Grp(1, Rep(Digits, 4))),
    ReI(Lit("xx") \o SP0 \o Grp(1, Rep(Digits, 4))),
    ReI(Lit("card") \o LazyDotStar \o Lit("xx") \o LazyDotStar
        \o Grp(1, Rep(Digits, 4))),
    ReI(Lit("xxxx") \o SP0 \o Lit("xxxx") \o SP0 \o Lit("xxxx") \o SP0
        \o Grp(1, Rep(Digits, 4))) >>

statement_period_patterns == <<
    ReI(Lit("Statement Period") \o SP1 \o Grp(1, DateMonSp) \o SP0 \o Lit("-") \o SP0
        \o Grp(2, DateMonSp)),
    ReI(Lit("Statement Period") \o SP1 \o Grp(1, DateMonHy) \o SP0 \o Lit("to") \o SP0
        \o Grp(2, DateMonHy)),
    ReI(Lit("date") \o SP0 \o Lit("range") \o ColSp \o Opt(Lit("upto") \o SP0)
        \o Grp(1, Cls(Digits, 1, 2, TRUE) \o SP1 \o Rep(Alpha, 3) \o Maybe({","})
                  \o SP1 \o Rep(Digits, 4))),
    ReI(Lit("statement") \o SP0 \o Alt(<<Lit("period"), Lit("date"), Lit("cycle")>>)
        \o ColSp \o Grp(1, DateNum) \o SP0 \o Alt(<<Lit("to"), Lit("-")>>) \o SP0
        \o Grp(2, DateNum)),
    ReI(Lit("billing") \o SP0 \o Alt(<<Lit("period"), Lit("cycle")>>)
        \o ColSp \o Grp(1, DateNum) \o SP0 \o Alt(<<Lit("to"), Lit("-")>>) \o SP0
        \o Grp(2, DateNum)),
    ReI(Lit("from") \o SP0 \o Grp(1, DateNum) \o SP0 \o Lit("to") \o SP0
        \o Grp(2, DateNum)) >>

total_due_patterns == <<
    ReI(Lit("Total Amount Due") \o SP1 \o Lit("INR") \o SP1 \o Grp(1, Amount)),
    ReI(Lit("Total Amount Due") \o SP1 \o CurRs \o SP0 \o Grp(1, Amount)),
    ReI(Lit("total") \o SP0 \o Opt(Lit("amount") \o SP0) \o Lit("due") \o ColSp
        \o CurAny \o SP0 \o Grp(1, Amount)),
    ReI(Lit("amount") \o SP0 \o Lit("due") \o ColSp \o CurAny \o SP0 \o Grp(1, Amount)),
    ReI(Lit("payment") \o SP0 \o Lit("due") \o ColSp \o CurAny \o SP0 \o Grp(1, Amount)),
    ReI(Lit("outstanding") \o SP0 \o Alt(<<Lit("amount"), Lit("balance")>>) \o ColSp
        \o CurAny \o SP0 \o Grp(1, Amount)) >>

due_date_patterns == <<
    ReI(Lit("Payment Due Date") \o SP1 \o Grp(1, DateMonSp)),
    ReI(Lit("Payment Due Date") \o SP1 \o Grp(1, DateMonHy)),
    ReI(Lit("due") \o SP0 \o Alt(<<Lit("date"), Lit("by")>>) \o ColSp
        \o Grp(1, DateNum)),
    ReI(Lit("payment") \o SP0 \o Lit("due") \o SP0 \o Alt(<<Lit("date"), Lit("by")>>)
        \o ColSp \o Grp(1, DateNum)),
    ReI(Lit("pay") \o SP0 \o Lit("by") \o ColSp \o Grp(1, DateNum)) >>

statement_date_patterns == <<
    ReI(Lit("Statement Date") \o SP1 \o Grp(1, DateMonSp)),
    ReI(Lit("Statement Date") \o SP1 \o Grp(1, DateMonHy)),
    ReI(Lit("statement") \o SP0 \o Lit("date") \o ColSp \o Grp(1, DateNum)) >>

minimum_due_patterns == <<
    ReI(Lit("Minimum Amount Due") \o SP1 \o Lit("INR") \o SP1 \o Grp(1, Amount)),
    ReI(Lit("Minimum Amount Due") \o SP1 \o CurRs \o SP0 \o Grp(1, Amount)),
    ReI(Lit("minimum") \o SP0 \o Opt(Lit("amount") \o SP0) \o Lit("due") \o ColSp
        \o CurAny \o SP0 \o Grp(1, Amount)) >>

name_pattern ==
    ReI(Alt(<<Lit("Name"), Lit("Customer Name")>>) \o Plus({":"} \cup Space)
        \o Grp(1, One(UpperAZ) \o LazyPlus(Alpha \cup Space))
        \o Alt(<<Lit("\n"), Lit("Customer"), Lit("Card")>>))

id_pattern ==
    ReI(Alt(<<Lit("Customer ID"), Lit("Account Number")>>) \o Plus({":"} \cup Space)
        \o Grp(1, Plus(Digits)))

\* the primary transaction grammar (no re.IGNORECASE)
transaction_pattern ==
    Re(Grp(1, DateMonHy) \o SP1 \o Grp(2, Alt(<<Lit("DEBIT"), Lit("CREDIT")>>)) \o SP1
       \o Grp(3, LazyPlus(Alpha \cup Space)) \o SP1 \o Grp(4, Amount))

fallback_pattern ==
    ReI(Grp(1, DateNum) \o SP1 \o Grp(2, LazyPlus(UpperAZ \cup Space \cup {"&", "-", "."}))
        \o SP1 \o CurAny \o SP0 \o Grp(3, Amount))

----------------------------------------------------------------------------
(* CreditCardParser *)

NotFound == "Not found"

\* self.supported_issuers
supported_issuers == <<"Axis Bank", "HDFC Bank", "ICICI Bank", "SBI Card", "IDFC FIRST Bank">>

\* the two phrases each branch of detect_issuer looks for, by issuer
IssuerSignatures == <<{"axis bank", "axis ace"}, {"hdfc bank", "hdfc regalia"},
                      {"icici bank", "icici card"}, {"sbi card", "sbi prime"},
                      {"idfc first", "idfc bank"}>>

\* the issuers with a signature phrase in the lower-cased text
IssuersPresent(s) ==
    LET text_lower == Lower(s)
    IN  {k \in 1..Len(supported_issuers) :
            \E w \in IssuerSignatures[k] : Contains(w, text_lower)}

\* where the first signature phrase of issuer k starts in the lower-cased text
SignaturePos(s, k) ==
    LET text_lower == Lower(s)
        at == {FindFrom(w, text_lower, 1) : w \in IssuerSignatures[k]} \ {0}
    IN  CHOOSE i \in at : \A j \in at : i <= j

\* mutant: the issuer whose phrase comes first in the text wins
detect_issuer_ByPosition(s) ==
    LET present == IssuersPresent(s)
    IN  IF present = {} THEN "Unknown Issuer"
        ELSE supported_issuers[CHOOSE k \in present :
                \A j \in present : SignaturePos(s, k) <= SignaturePos(s, j)]

\* detect_issuer: the if/elif chain over the lower-cased text
detect_issuer(s) ==
    LET text_lower == Lower(s)
    IN  IF Contains("axis bank", text_lower) \/ Contains("axis ace", text_lower)
        THEN "Axis Bank"
        ELSE IF Contains("hdfc bank", text_lower) \/ Contains("hdfc regalia", text_lower)
        THEN "HDFC Bank"
        ELSE IF Contains("icici bank", text_lower) \/ Contains("icici card", text_lower)
        THEN "ICICI Bank"
        ELSE IF Contains("sbi card", text_lower) \/ Contains("sbi prime", text_lower)
        THEN "SBI Card"
        ELSE IF Contains("idfc first", text_lower) \/ Contains("idfc bank", text_lower)
        THEN "IDFC FIRST Bank"
        ELSE "Unknown Issuer"

\* for pattern in patterns: match = re.search(pattern, text, re.IGNORECASE);
\* if match: ...   -- the first rule from index k on that matches, with its match
RECURSIVE FirstMatchFrom(_, _, _)

\* mutant: of the rules that match, the one whose match starts first in the
\* text wins (as if the rules were one alternation)
FirstMatchFrom_Leftmost(patterns, h, k) ==
    LET M == {j \in k..Len(patterns) : Search(patterns[j], h).ok}
    IN  IF M = {} THEN [rule |-> 0, m |-> NoMatch]
        ELSE LET best == CHOOSE j \in M : \A i \in M :
                            \/ Search(patterns[j], h).start < Search(patterns[i], h).start
                            \/ /\ Search(patterns[j], h).start = Search(patterns[i], h).start
                               /\ j <= i
             IN  [rule |-> best, m |-> Search(patterns[best], h)]

FirstMatchFrom(patterns, h, k) ==
    IF k > Len(patterns) THEN [rule |-> 0, m |-> NoMatch]
    ELSE LET m == Search(patterns[k], h)
         IN  IF m.ok THEN [rule |-> k, m |-> m]
             ELSE FirstMatchFrom(patterns, h, k + 1)

FirstMatch(patterns, s) == FirstMatchFrom(patterns, Subject(s), 1)

extract_card_last_4(s) ==
    LET f == FirstMatch(card_last_4_patterns, s)
    IN  IF f.rule > 0 THEN Group(f.m, s, 1) ELSE NotFound

\* the period from the match of a rule: by match.lastindex
FormatPeriod(m, s) ==
    IF m.caps.lastindex = 1
    THEN "Upto " \o Group(m, s, 1)
    ELSE Group(m, s, 1) \o " to " \o Group(m, s, 2)

extract_statement_period(s) ==
    LET f == FirstMatch(statement_period_patterns, s)
    IN  IF f.rule > 0 THEN FormatPeriod(f.m, s) ELSE NotFound

extract_total_due(s) ==
    LET f == FirstMatch(total_due_patterns, s)
    IN  IF f.rule > 0 THEN "INR " \o Group(f.m, s, 1) ELSE NotFound

extract_due_date(s) ==
    LET f == FirstMatch(due_date_patterns, s)
    IN  IF f.rule > 0 THEN Group(f.m, s, 1) ELSE NotFound

extract_statement_date(s) ==
    LET f == FirstMatch(statement_date_patterns, s)
    IN  IF f.rule > 0 THEN Group(f.m, s, 1) ELSE NotFound

extract_minimum_due(s) ==
    LET f == FirstMatch(minimum_due_patterns, s)
    IN  IF f.rule > 0 THEN "INR " \o Group(f.m, s, 1) ELSE NotFound

\* the six scalar fields of the record, with the rule list of each and the
\* value each extractor returns for the match m of one of its rules
ScalarFields == {"card_last_4", "statement_date", "statement_period", "total_due",
                 "minimum_due", "due_date"}

RulesOf(f) ==
    CASE f = "card_last_4" -> card_last_4_patterns
      [] f = "statement_date" -> statement_date_patterns
      [] f = "statement_period" -> statement_period_patterns
      [] f = "total_due" -> total_due_patterns
      [] f = "minimum_due" -> minimum_due_patterns
      [] f = "due_date" -> due_date_patterns

ValueOf(f, m, s) ==
    CASE f \in {"card_last_4", "statement_date", "due_date"} -> Group(m, s, 1)
      [] f = "statement_period" -> FormatPeriod(m, s)
      [] f \in {"total_due", "minimum_due"} -> "INR " \o Group(m, s, 1)

\* a dict as a function from its keys
EmptyDict == [k \in {} |-> ""]

\* mutant: a field that is not detected is set to the sentinel
extract_customer_info_Sentinel(s) ==
    LET h == Subject(s)
        name_match == Search(name_pattern, h)
        id_match == Search(id_pattern, h)
    IN  [customer_name |-> IF name_match.ok THEN Strip(Group(name_match, s, 1))
                           ELSE NotFound,
         customer_id |-> IF id_match.ok THEN Group(id_match, s, 1) ELSE NotFound]

extract_customer_info(s) ==
    LET h == Subject(s)
        name_match == Search(name_pattern, h)
        id_match == Search(id_pattern, h)
        info1 == IF name_match.ok
                 THEN [k \in {"customer_name"} |-> Strip(Group(name_match, s, 1))]
                 ELSE EmptyDict
    IN  IF id_match.ok
        THEN [k \in DOMAIN info1 \cup {"customer_id"} |->
                 IF k = "customer_id" THEN Group(id_match, s, 1) ELSE info1[k]]
        ELSE info1

\* the transaction dict of one primary match
Transaction(m, s) ==
    [date |-> Group(m, s, 1), type |-> Group(m, s, 2),
     description |-> Strip(Group(m, s, 3)), amount |-> "INR " \o Group(m, s, 4)]

extract_transactions(s) ==
    LET matches == FindAll(transaction_pattern, s)
    IN  [i \in 1..Len(matches) |-> Transaction(matches[i], s)]

\* mutant: the grammar whose first match comes first in the document gives
\* the sample
extract_sample_transaction_Earliest(s) ==
    LET primary == FindAll(transaction_pattern, s)
        fallback_matches == FindAll(fallback_pattern, s)
    IN  IF Len(fallback_matches) > 0
           /\ (Len(primary) = 0 \/ fallback_matches[1].start < primary[1].start)
        THEN [date |-> Group(fallback_matches[1], s, 1),
              description |-> Strip(Group(fallback_matches[1], s, 2)),
              amount |-> "INR " \o Group(fallback_matches[1], s, 3)]
        ELSE IF Len(primary) > 0 THEN Transaction(primary[1], s)
        ELSE [date |-> NotFound, description |-> NotFound, amount |-> NotFound]

\* mutant: the fallback sample carries a type key like a primary transaction
extract_sample_transaction_Typed(s) ==
    LET primary == FindAll(transaction_pattern, s)
        fallback_matches == FindAll(fallback_pattern, s)
    IN  IF Len(primary) > 0 THEN Transaction(primary[1], s)
        ELSE IF Len(fallback_matches) > 0
        THEN [date |-> Group(fallback_matches[1], s, 1), type |-> NotFound,
              description |-> Strip(Group(fallback_matches[1], s, 2)),
              amount |-> "INR " \o Group(fallback_matches[1], s, 3)]
        ELSE [date |-> NotFound, description |-> NotFound, amount |-> NotFound]

extract_sample_transaction(s) ==
    LET transactions == extract_transactions(s)
    IN  IF Len(transactions) > 0 THEN transactions[1]
        ELSE LET fallback_matches == FindAll(fallback_pattern, s)
             IN  IF Len(fallback_matches) > 0
                 THEN LET transaction == fallback_matches[1]
                      IN  [date |-> Group(transaction, s, 1),
                           description |-> Strip(Group(transaction, s, 2)),
                           amount |-> "INR " \o Group(transaction, s, 3)]
                 ELSE [date |-> NotFound, description |-> NotFound, amount |-> NotFound]

----------------------------------------------------------------------------
(* Python values that may be None *)

PyNone == [ty |-> "None"]
PyStr(s) == [ty |-> "str", v |-> s]
PyDict(d) == [ty |-> "dict", v |-> d]

\* the truth value Python gives  if x:  /  if not x:
Truthy(x) ==
    CASE x.ty = "None" -> FALSE
      [] x.ty = "str" -> Len(x.v) > 0
      [] x.ty = "dict" -> DOMAIN x.v # {}

\* dict.update: the keys of other are added, replacing equal keys
DictUpdate(d, other) == [k \in DOMAIN d \cup DOMAIN other |->
                            IF k \in DOMAIN other THEN other[k] ELSE d[k]]

----------------------------------------------------------------------------
(* extract_text_from_pdf and parse_statement *)

\* text += page_text + "\n" for every page that has text
RECURSIVE JoinPages(_)
JoinPages(pages) ==
    IF Len(pages) = 0 THEN ""
    ELSE (IF Len(Head(pages)) > 0 THEN Head(pages) \o "\n" ELSE "")
         \o JoinPages(Tail(pages))

\* a pdf that pdfplumber cannot open raises, and the except branch returns None
extract_text_from_pdf(pdf_file) ==
    IF pdf_file.readable THEN PyStr(JoinPages(pdf_file.pages)) ELSE PyNone

Extractors == {"detect_issuer", "extract_customer_info", "extract_card_last_4",
               "extract_statement_date", "extract_statement_period",
               "extract_total_due", "extract_minimum_due", "extract_due_date",
               "extract_sample_transaction", "extract_transactions"}

\* the result dict literal of parse_statement
BuildResult(s) ==
    [issuer |-> detect_issuer(s),
     card_last_4 |-> extract_card_last_4(s),
     statement_date |-> extract_statement_date(s),
     statement_period |-> extract_statement_period(s),
     total_due |-> extract_total_due(s),
     minimum_due |-> extract_minimum_due(s),
     due_date |-> extract_due_date(s),
     sample_transaction |-> extract_sample_transaction(s),
     transaction_count |-> Len(extract_transactions(s))]

\* mutant: the customer fields replace the record
MergeCustomer_Replace(res, customer_info) ==
    IF DOMAIN customer_info # {} THEN customer_info ELSE res

\* if customer_info: result.update(customer_info)
MergeCustomer(res, customer_info) ==
    IF DOMAIN customer_info # {} THEN DictUpdate(res, customer_info) ELSE res

\* parse_statement after the text is extracted: what it returns, and which
\* components it invoked on the way (the fallback grammar is reached only
\* past the  if transactions:  return of extract_sample_transaction)
\* mutant: only a text of None is a failure ( if text is None )
parse_statement_NoneOnly(t) ==
    IF t.ty = "None" THEN [ret |-> PyNone, invoked |-> {}]
    ELSE LET res == BuildResult(t.v)
         IN  [ret |-> PyDict(MergeCustomer(res, extract_customer_info(t.v))),
              invoked |-> Extractors \cup
                          (IF res.transaction_count = 0
                           THEN {"fallback_pattern"} ELSE {})]

parse_statement(t) ==
    IF ~Truthy(t) THEN [ret |-> PyNone, invoked |-> {}]
    ELSE LET res == BuildResult(t.v)
         IN  [ret |-> PyDict(MergeCustomer(res, extract_customer_info(t.v))),
              invoked |-> Extractors \cup
                          (IF res.transaction_count = 0
                           THEN {"fallback_pattern"} ELSE {})]

----------------------------------------------------------------------------
(* The documents the model uploads *)

IssuerFrags == {"Axis Bank ", "HDFC Regalia ", "icici card ", "SBI PRIME ",
                "IDFC First ", "Statement "}
CardFrags == {"Card Visa (XXXX-XXXX-XXXX-1111) ", "XXXX-XXXX-XXXX-5555 ",
              "card ending with 2222 ", "xx3333 ", "xxxx xxxx xxxx 4444 "}
PeriodFrags == {"Statement Period 01 Jan 2024 - 31 Jan 2024\n",
                "date range: upto 15 Mar 2024\n",
                "Date Range: 01 Feb 2024 to 28 Feb 2024\n",
                "statement period: 01/05/2024 to 31/05/2024\n",
                "from 01/04/2024 to 30/04/2024\n"}
AmountFrags == {"Total Amount Due INR 12,345.67\n", "total due: 900.50\n",
                "Minimum Amount Due INR 1,000.00\n", "payment due 77\n",
                "Outstanding Balance ₹ 42\n"}
DueDateFrags == {"Payment Due Date 05 Feb 2024\n", "Payment Due Date 06-Feb-2024\n",
                 "Due Date: 07/02/2024\n", "payment due by 08/02/2024\n",
                 "pay by 09-02-2024\n"}
StatementDateFrags == {"Statement Date 01 Feb 2024\n", "Statement Date 02-Feb-2024\n",
                       "statement date: 03/02/2024\n"}
CustomerFrags == {"Customer Name: Asha Rao\n", "Name: Not found\n",
                  "Customer ID: 12345\n", "Account Number 999 ", "Name: Ravi Card"}
TransactionFrags == {"01-Jan-2024 DEBIT Amazon Pay 1,200.00\n",
                     "02-Jan-2024 CREDIT Refund 300\n", "03/01/2024 SWIGGY 450.00\n",
                     "04-01-2024 UBER & CO rs. 99\n", "no transactions\n"}

FragFamilies == {IssuerFrags, CardFrags, PeriodFrags, AmountFrags, DueDateFrags,
                 StatementDateFrags, CustomerFrags, TransactionFrags}

\* the page texts made of n different fragments of F, in every order
RECURSIVE Concats(_, _)
Concats(F, n) ==
    IF n = 0 THEN {""}
    ELSE UNION {{f \o r : r \in Concats(F \ {f}, n - 1)} : f \in F}

PageTexts == UNION {UNION {Concats(F, n) : n \in 1..MaxFrags} : F \in FragFamilies}

\* a batch of one document with one page of text
SingleUploads ==
    {<<[name |-> "statement.pdf", readable |-> TRUE, pages |-> <<p>>]>> : p \in PageTexts}

\* two statements, a scanned pdf whose pages hold no text, a file that is no pdf
BatchDocs ==
    {[name |-> "axis.pdf", readable |-> TRUE,
      pages |-> <<"Axis Bank\nxx3333", "Total Amount Due INR 12,345.67">>],
     [name |-> "hdfc.pdf", readable |-> TRUE,
      pages |-> <<"HDFC Bank\nCustomer ID: 12345\nDue Date: 07/02/2024\n03/01/2024 SWIGGY 450.00">>],
     [name |-> "scan.pdf", readable |-> TRUE, pages |-> <<"", "">>],
     [name |-> "broken.pdf", readable |-> FALSE, pages |-> <<>>]}

BatchUploads == UNION {[1..n -> BatchDocs] : n \in 1..MaxFiles}

Uploads == SingleUploads \cup BatchUploads

----------------------------------------------------------------------------
(* main(): the processing loop over the uploaded files *)

Init ==
    /\ uploaded_files \in Uploads
    /\ show_raw_text \in BOOLEAN
    /\ views = <<>>
    /\ idx = 1
    /\ pc = "extract"
    /\ text = PyNone
    /\ result = PyNone
    /\ results = <<>>
    /\ calls = {}

\* mutant: the record is put in front of the list
AppendRecord_Prepend(rs, res, uploaded_file) ==
    IF Truthy(res)
    THEN <<DictUpdate(res.v, [filename |-> uploaded_file.name])>> \o rs
    ELSE rs

\* if result: result['filename'] = uploaded_file.name; results.append(result)
AppendRecord(rs, res, uploaded_file) ==
    IF Truthy(res)
    THEN Append(rs, DictUpdate(res.v, [filename |-> uploaded_file.name]))
    ELSE rs

\* parse_statement, first line: text = self.extract_text_from_pdf(pdf_file)
ExtractText ==
    /\ pc = "extract"
    /\ text' = extract_text_from_pdf(uploaded_files[idx])
    /\ calls' = {}
    /\ pc' = "parse"
    /\ UNCHANGED <<uploaded_files, show_raw_text, idx, result, results, views>>

\* parse_statement from  if not text  to its return
ParseStatement ==
    /\ pc = "parse"
    /\ \E r \in {parse_statement(text)} :
          /\ result' = r.ret
          /\ calls' = r.invoked
    /\ pc' = "append"
    /\ UNCHANGED <<uploaded_files, show_raw_text, idx, text, results, views>>

\* the rest of the loop body: tag and keep the record, go to the next file
AppendResult ==
    /\ pc = "append"
    /\ results' = AppendRecord(results, result, uploaded_files[idx])
    /\ idx' = idx + 1
    /\ pc' = IF idx + 1 > Len(uploaded_files) THEN "done" ELSE "extract"
    /\ UNCHANGED <<uploaded_files, show_raw_text, text, result, calls, views>>

\* st.code(raw_text[:2000] + "..." if len(raw_text) > 2000 else raw_text)
st_code(raw_text) ==
    IF Len(raw_text) > 2000 THEN SubSeq(raw_text, 1, 2000) \o "..." ELSE raw_text

\* for idx, result in enumerate(results): the loop is entered with idx back
\* at the first position, or left at once when there is no record
StartDisplay ==
    /\ pc = "done"
    /\ idx' = 1
    /\ pc' = IF Len(results) = 0 THEN "export" ELSE "display"
    /\ UNCHANGED <<uploaded_files, show_raw_text, text, result, results, calls, views>>

\* one pass of the display loop: the expander headed by the record's
\* filename and, with the checkbox set, the text of uploaded_files[idx];
\* len(raw_text) raises TypeError when that text is None
DisplayResult ==
    /\ pc = "display"
    /\ \E raw_text \in {IF show_raw_text THEN extract_text_from_pdf(uploaded_files[idx])
                         ELSE PyNone} :
          IF show_raw_text /\ raw_text = PyNone
          THEN /\ pc' = "raised"
               /\ UNCHANGED <<idx, views>>
          ELSE /\ views' = Append(views,
                              [document |-> idx,
                               filename |-> results[idx].filename,
                               raw_text |-> IF show_raw_text
                                            THEN PyStr(st_code(raw_text.v))
                                            ELSE PyNone])
               /\ idx' = idx + 1
               /\ pc' = IF idx + 1 > Len(results) THEN "export" ELSE "display"
    /\ UNCHANGED <<uploaded_files, show_raw_text, text, result, results, calls>>

Next == ExtractText \/ ParseStatement \/ AppendResult \/ StartDisplay \/ DisplayResult

Spec == Init /\ [][Next]_vars

----------------------------------------------------------------------------
(* Properties *)

\* parse_statement has just returned a record for the text of the current file
Parsed == pc = "append" /\ Truthy(text)

\* C1: the issuer of the record is the first issuer of supported_issuers that
\* has a signature phrase in the lower-cased text, wherever the phrases sit,
\* and it is "Unknown Issuer" exactly when no issuer has one.
C1_IssuerPriority ==
    Parsed =>
        LET present == IssuersPresent(text.v)
        IN  /\ present # {} => result.v.issuer = supported_issuers[Least(present)]
            /\ (result.v.issuer = "Unknown Issuer") <=> (present = {})

\* C1 witness: phrases of two issuers occur, the later issuer's phrase first in
\* the text, and the earlier issuer is returned.
C1_Witness ==
    /\ Parsed
    /\ \E i, j \in IssuersPresent(text.v) :
          /\ i < j
          /\ SignaturePos(text.v, j) < SignaturePos(text.v, i)
          /\ result.v.issuer = supported_issuers[i]

\* the rules of field f that match somewhere in the subject h
Matching(f, h) == {k \in 1..Len(RulesOf(f)) : Search(RulesOf(f)[k], h).ok}

\* C2: every scalar field of the record is the value of the lowest-index rule
\* of its list that matches anywhere in the text, and it is "Not found" exactly
\* when no rule of the list matches.
C2_FirstRuleWins ==
    Parsed =>
        \A h \in {Subject(text.v)} : \A f \in ScalarFields :
            LET M == Matching(f, h)
            IN  /\ M # {} =>
                     result.v[f] = ValueOf(f, Search(RulesOf(f)[Least(M)], h), text.v)
                /\ (result.v[f] = NotFound) <=> (M = {})

\* C2 witness: two rules of one field match, the later rule earlier in the
\* text and with another value, and the record holds the earlier rule's value.
C2_Witness ==
    /\ Parsed
    /\ \E h \in {Subject(text.v)} : \E f \in ScalarFields :
          \E k, j \in Matching(f, h) :
             /\ k = Least(Matching(f, h))
             /\ k < j
             /\ Search(RulesOf(f)[j], h).start < Search(RulesOf(f)[k], h).start
             /\ ValueOf(f, Search(RulesOf(f)[j], h), text.v) # result.v[f]
             /\ ValueOf(f, Search(RulesOf(f)[k], h), text.v) = result.v[f]

\* the pairs the rule-order policy speaks of: <<field, specific rule, generic
\* rule>>, every text the specific rule matches being matched by the generic
\* one too: 'payment due date|by <date>' against the bare 'due date|by <date>',
\* and 'xxxx xxxx xxxx ####' against the bare 'xx####'
SpecificOverGeneric == {<<"due_date", 4, 3>>, <<"card_last_4", 6, 4>>}

\* C3: a generic rule never pre-empts a more specific one: when a text matches
\* both rules of such a pair and one of the two decides the field, the record
\* holds the value the more specific rule captures.
C3_SpecificRuleWins ==
    Parsed =>
        \A h \in {Subject(text.v)} : \A p \in SpecificOverGeneric :
            LET f == p[1]
                specific == Search(RulesOf(f)[p[2]], h)
                generic == Search(RulesOf(f)[p[3]], h)
            IN  (specific.ok /\ generic.ok /\ Least(Matching(f, h)) \in {p[2], p[3]}) =>
                    result.v[f] = ValueOf(f, specific, text.v)

\* the rendered forms of statement_period
IsUpto(p) == Len(p) >= 5 /\ SubSeq(p, 1, 5) = "Upto "
IsRange(p) == ~IsUpto(p) /\ Contains(" to ", p)

RECURSIVE GroupCount(_)
GroupCount(items) ==
    IF Len(items) = 0 THEN 0
    ELSE (IF Head(items).t = "open" THEN 1 ELSE 0) + GroupCount(Tail(items))

\* the period rules with two captured dates, and those with one
RangeRules == {k \in 1..Len(statement_period_patterns) :
                  GroupCount(statement_period_patterns[k].items) = 2}
SingleBoundRules == {k \in 1..Len(statement_period_patterns) :
                        GroupCount(statement_period_patterns[k].items) = 1}

\* what the single-bound rule matches, followed by  to|-  and a second date
LabelledRange ==
    ReI(Lit("date") \o SP0 \o Lit("range") \o ColSp
        \o Cls(Digits, 1, 2, TRUE) \o SP1 \o Rep(Alpha, 3) \o Maybe({","}) \o SP1
        \o Rep(Digits, 4) \o SP0 \o Alt(<<Lit("to"), Lit("-")>>) \o SP0
        \o Cls(Digits, 1, 2, TRUE) \o SP1 \o Rep(Alpha, 3) \o Maybe({","}) \o SP1
        \o Rep(Digits, 4))

\* the text states a from/to range; the text states a single upper bound
StatesRange(h) ==
    \/ Matching("statement_period", h) \cap RangeRules # {}
    \/ Search(LabelledRange, h).ok
StatesUpperBound(h) == Matching("statement_period", h) \cap SingleBoundRules # {}

\* C4: statement_period is "Upto <date>" exactly when the winning rule is the
\* single-bound grammar and "<date1> to <date2>" exactly when it is a range
\* grammar; a text that states a from/to range is never rendered "Upto", and
\* a single upper-bound text is never rendered as a range.
C4_PeriodForm ==
    Parsed =>
        \A h \in {Subject(text.v)} :
            LET M == Matching("statement_period", h)
                p == result.v.statement_period
            IN  /\ IsUpto(p) <=> (M # {} /\ Least(M) \in SingleBoundRules)
                /\ IsRange(p) <=> (M # {} /\ Least(M) \in RangeRules)
                /\ StatesRange(h) => ~IsUpto(p)
                /\ StatesUpperBound(h) => ~IsRange(p)

\* C5: transaction_count is the number of matches of the primary grammar, and
\* when there is one, sample_transaction is the first of them in document
\* order, with a type of DEBIT or CREDIT; fallback-only lines are neither
\* counted nor selected, wherever they stand.
C5_PrimaryTransactions ==
    Parsed =>
        LET primary == FindAll(transaction_pattern, text.v)
            sample == result.v.sample_transaction
        IN  /\ result.v.transaction_count = Len(primary)
            /\ Len(primary) >= 1 =>
                 /\ DOMAIN sample = {"date", "type", "description", "amount"}
                 /\ sample.date = Group(primary[1], text.v, 1)
                 /\ sample.type = Group(primary[1], text.v, 2)
                 /\ sample.type \in {"DEBIT", "CREDIT"}
                 /\ sample.description = Strip(Group(primary[1], text.v, 3))
                 /\ sample.amount = "INR " \o Group(primary[1], text.v, 4)

\* C5 witness: a fallback-only line stands before the first primary match, and
\* the sample is the primary match.
C5_Witness ==
    /\ Parsed
    /\ LET primary == FindAll(transaction_pattern, text.v)
           fallback_matches == FindAll(fallback_pattern, text.v)
       IN  /\ Len(primary) >= 1
           /\ Len(fallback_matches) >= 1
           /\ fallback_matches[1].start < primary[1].start
           /\ result.v.transaction_count = Len(primary)
           /\ "type" \in DOMAIN result.v.sample_transaction

AllSentinel == [date |-> NotFound, description |-> NotFound, amount |-> NotFound]

\* C6: the fallback grammar is consulted only when the primary grammar has no
\* match; if it then matches, sample_transaction is its first match with
\* exactly the keys date, description, amount and transaction_count is 0; if
\* neither grammar matches, sample_transaction is all "Not found" and
\* transaction_count is 0.
C6_FallbackChain ==
    Parsed =>
        LET primary == FindAll(transaction_pattern, text.v)
            fallback_matches == FindAll(fallback_pattern, text.v)
            sample == result.v.sample_transaction
        IN  /\ ("fallback_pattern" \in calls) <=> (Len(primary) = 0)
            /\ (Len(primary) = 0 /\ Len(fallback_matches) > 0) =>
                 /\ DOMAIN sample = {"date", "description", "amount"}
                 /\ sample.date = Group(fallback_matches[1], text.v, 1)
                 /\ sample.description = Strip(Group(fallback_matches[1], text.v, 2))
                 /\ sample.amount = "INR " \o Group(fallback_matches[1], text.v, 3)
                 /\ result.v.transaction_count = 0
            /\ (Len(primary) = 0 /\ Len(fallback_matches) = 0) =>
                 /\ sample = AllSentinel
                 /\ result.v.transaction_count = 0

\* C6 witness: no primary match, two fallback matches, the sample is the first.
C6_Witness ==
    /\ Parsed
    /\ LET fallback_matches == FindAll(fallback_pattern, text.v)
       IN  /\ Len(FindAll(transaction_pattern, text.v)) = 0
           /\ Len(fallback_matches) >= 2
           /\ result.v.sample_transaction.date = Group(fallback_matches[1], text.v, 1)
           /\ result.v.sample_transaction.date # Group(fallback_matches[2], text.v, 1)
           /\ result.v.transaction_count = 0

\* C7: the record has the key customer_name exactly when the name rule matched
\* and the key customer_id exactly when the id rule matched; a text with no
\* name label gives a record without customer_name.
C7_OptionalCustomerKeys ==
    Parsed =>
        \A h \in {Subject(text.v)} :
            /\ ("customer_name" \in DOMAIN result.v) <=> Search(name_pattern, h).ok
            /\ ("customer_id" \in DOMAIN result.v) <=> Search(id_pattern, h).ok
            /\ ~Contains("name", h.folded) => "customer_name" \notin DOMAIN result.v

\* C7 witness: a text without a name label whose id rule matched: the record
\* has customer_id and no customer_name.
C7_Witness ==
    /\ Parsed
    /\ ~Contains("name", Lower(text.v))
    /\ "customer_id" \in DOMAIN result.v
    /\ "customer_name" \notin DOMAIN result.v

\* C8: when the extracted text is None or empty, parse_statement returns None
\* and has invoked no classifier, extractor or transaction parser.
C8_NoTextNoRecord ==
    (pc = "append" /\ ~Truthy(text)) => (result = PyNone /\ calls = {})

\* C8 witness: a pdf whose pages hold no text: the text is the empty string
\* and parse_statement has returned None.
C8_Witness ==
    /\ pc = "append"
    /\ text = PyStr("")
    /\ result = PyNone
    /\ calls = {}

RequiredKeys == {"issuer", "card_last_4", "statement_date", "statement_period",
                 "total_due", "minimum_due", "due_date", "sample_transaction",
                 "transaction_count"}

\* C9: for a non-empty text the record has the nine required keys, every
\* scalar field is a non-empty string, and after the customer fields are
\* merged the nine keys still hold what the extractors returned.
C9_RequiredKeys ==
    Parsed =>
        /\ result.ty = "dict"
        /\ RequiredKeys \subseteq DOMAIN result.v
        /\ DOMAIN result.v \subseteq RequiredKeys \cup {"customer_name", "customer_id"}
        /\ \A f \in ScalarFields : Len(result.v[f]) > 0
        /\ [k \in RequiredKeys |-> result.v[k]] = BuildResult(text.v)

\* C9 witness: a record with a merged customer field, a captured scalar and a
\* scalar that is "Not found".
C9_Witness ==
    /\ Parsed
    /\ DOMAIN result.v \cap {"customer_name", "customer_id"} # {}
    /\ \E f, g \in ScalarFields : result.v[f] = NotFound /\ result.v[g] # NotFound

\* what parse_statement returns for each uploaded file taken alone, and the
\* positions of the files it succeeded on
Alone == [i \in 1..Len(uploaded_files) |->
             parse_statement(extract_text_from_pdf(uploaded_files[i])).ret]
Succeeded == {i \in 1..Len(uploaded_files) : Alone[i] # PyNone}

\* the j-th smallest element of S
RECURSIVE Nth(_, _)
Nth(S, j) == IF j = 1 THEN Least(S) ELSE Nth(S \ {Least(S)}, j - 1)

\* C10: after the loop, results holds, in upload order, exactly the records
\* of the files parse_statement succeeded on, each the record of its own
\* file tagged with that file's name.
C10_OneRecordPerSuccess ==
    pc = "done" =>
        \A alone \in {Alone} :
            LET ok == {i \in DOMAIN alone : alone[i] # PyNone}
            IN  /\ Len(results) = Cardinality(ok)
                /\ \A j \in 1..Len(results) :
                      results[j] =
                         DictUpdate(alone[Nth(ok, j)].v,
                                    [filename |-> uploaded_files[Nth(ok, j)].name])

\* C10 witness: a batch whose first file failed and whose second file gave the
\* first record.
C10_Witness ==
    /\ pc = "done"
    /\ 1 \notin Succeeded
    /\ Len(results) >= 1
    /\ results[1].filename = uploaded_files[2].name
    /\ Len(uploaded_files) > Len(results)

\* C11: with 'Display extracted text' set, the text shown under the j-th
\* result is the text of the uploaded file that produced that result, the
\* j-th file parse_statement succeeded on, whatever files were skipped
\* before it.
C11_RawTextOfSameFile ==
    \A j \in 1..Len(views) :
        show_raw_text =>
            views[j].raw_text =
                PyStr(st_code(extract_text_from_pdf(uploaded_files[Nth(Succeeded, j)]).v))

\* the label of the minimum-due line, as the case-folded searches see it
MinimumLabel == "minimum amount due"

\* the match starts inside an occurrence of the minimum-due label
InsideMinimumLabel(m, h) ==
    \E q \in Occurrences(MinimumLabel, h.folded, 1) :
        q < m.start /\ m.start < q + Len(MinimumLabel)

\* the only amount label of the text is the minimum-due label: every "due"
\* is the last word of one, and no outstanding amount is stated
OnlyMinimumLabel(h) ==
    /\ Occurrences(MinimumLabel, h.folded, 1) # {}
    /\ \A d \in Occurrences("due", h.folded, 1) :
          d - Len("minimum amount ") \in Occurrences(MinimumLabel, h.folded, 1)
    /\ Occurrences("outstanding", h.folded, 1) = {}

\* C12: the match that decides total_due never starts inside a 'Minimum
\* Amount Due' label, and a text whose only amount label is 'Minimum Amount
\* Due <amount>' gets total_due "Not found" and minimum_due "INR <amount>".
C12_NoLabelLeak ==
    Parsed =>
        LET h == Subject(text.v)
            M == Matching("total_due", h)
        IN  /\ M # {} =>
                  ~InsideMinimumLabel(Search(RulesOf("total_due")[Least(M)], h), h)
            /\ OnlyMinimumLabel(h) =>
                  /\ result.v.total_due = NotFound
                  /\ result.v.minimum_due # NotFound
                  /\ SubSeq(result.v.minimum_due, 1, 4) = "INR "

====
